---- MODULE Spec2Model ----
(***************************************************************************)
(* Model of pym/bob/archive.py: the archive backends of the Bob build      *)
(* tool (DummyArchive, BaseArchive, LocalArchive, SimpleHttpArchive,       *)
(* CustomArchive, MultiArchive) and the factory getSingleArchiver.         *)
(*                                                                         *)
(* Python values are rendered as follows.                                  *)
(*   None, True, False as results  the strings "None", "True", "False"     *)
(*   a raised exception            the string naming its class             *)
(*   a str that is a script        the sequence of its lines (split at     *)
(*                                 "\n"), a line being [ind, txt]: the     *)
(*                                 number of leading blanks and the rest   *)
(*   a path or an URL              the sequence of its components          *)
(*   a directory                   [exists, files], files a set of         *)
(*                                 <<name, content>> pairs                 *)
(*   a .tgz file                   [exists, complete, entries]             *)
(***************************************************************************)
EXTENDS Integers, Sequences, FiniteSets, TLC

VARIABLES
    recipes,    \* the configuration: [archiveSpec, envWhiteList]
    environ,    \* os.environ of the process, a set of <<name, value>> pairs
    archives,   \* the backend objects built from recipes.archiveSpec, in order
    passed,     \* per backend: the values last passed to wantUpload/wantDownload
    files,      \* the .tgz files below the base paths of the file backends
    dirs,       \* the workspace directories handed to the transfer calls
    tmp,        \* the local temporary files that exist
    last,       \* the last call made since the toggles were set, and what it did
    calls       \* per thread: the transfer call it is in, and where in it

vars == <<recipes, environ, archives, passed, files, dirs, tmp, last, calls>>

(***************************************************************************)
(* Bounds of the model.                                                    *)
(***************************************************************************)
NumIds == 2          \* number of distinct build identifiers
MaxArchives == 2     \* longest list of archive specs handed to getArchiver

(***************************************************************************)
(* Program constants.                                                      *)
(***************************************************************************)
HTTP_NOT_FOUND == 404    \* the e.code the upload treats as "absent"

(***************************************************************************)
(* Small helpers on sequences.                                             *)
(***************************************************************************)
Last(s) == s[Len(s)]

Min(a, b) == IF a < b THEN a ELSE b

\* Python slice s[lo:hi] of a sequence, 0-based, clipped to the length.
Slice(s, lo, hi) == SubSeq(s, Min(lo, Len(s)) + 1, Min(hi, Len(s)))

\* Python "".join(s) of a sequence of strings.
RECURSIVE Concat(_)
Concat(s) == IF s = <<>> THEN "" ELSE Head(s) \o Concat(Tail(s))

(***************************************************************************)
(* Build identifiers and the sharded location.                             *)
(***************************************************************************)
BuildIds == { <<170, 187, 203 + k>> : k \in 1..NumIds }

HexDigits == <<"0", "1", "2", "3", "4", "5", "6", "7",
               "8", "9", "a", "b", "c", "d", "e", "f">>

\* utils.asHexStr: two lowercase hex digits per byte, as a sequence of digits.
RECURSIVE asHexStr(_)
asHexStr(buildId) ==
    IF buildId = <<>> THEN <<>>
    ELSE <<HexDigits[(Head(buildId) \div 16) + 1],
           HexDigits[(Head(buildId) % 16) + 1]>> \o asHexStr(Tail(buildId))

\* The three components every backend derives from the identifier.
ShardKey(buildId) ==
    LET packageResultId == asHexStr(buildId)
    IN  << Concat(Slice(packageResultId, 0, 2)),
           Concat(Slice(packageResultId, 2, 4)),
           Concat(Slice(packageResultId, 4, Len(packageResultId))) \o ".tgz" >>

\* LocalArchive: os.path.join(basePath, id[0:2], id[2:4], id[4:]) + ".tgz"
packageResultFile(self, buildId) == <<self.basePath>> \o ShardKey(buildId)

\* SimpleHttpArchive._makeUrl
SimpleHttpArchive_makeUrl(self, buildId) == <<self.url>> \o ShardKey(buildId)

\* CustomArchive._makeUrl: the key without any base
CustomArchive_makeUrl(self, buildId) == ShardKey(buildId)

(***************************************************************************)
(* Directories, archive files, scripts.                                    *)
(***************************************************************************)
Tree1 == { <<"f", "one">> }
Tree2 == { <<"g", "two">> }
Trees == { Tree1, Tree2 }

NoDir == [exists |-> FALSE, files |-> {}]
Dir(t) == [exists |-> TRUE, files |-> t]
DirStates == { NoDir } \cup { Dir(t) : t \in Trees }

NoFile == [exists |-> FALSE, complete |-> FALSE, entries |-> {}]
Tgz(t) == [exists |-> TRUE, complete |-> TRUE, entries |-> t]
\* what tarfile.open(name, "w:gz") leaves when tar.add raises: no entry, no end
PartialTgz == [exists |-> TRUE, complete |-> FALSE, entries |-> {}]

DirNames == { "d1", "d2" }

Line(n, t) == [ind |-> n, txt |-> t]
EmptyStr == << Line(0, "") >>

\* Python "\n" + s on a string given as lines
NewlinePlus(s) == << Line(0, "") >> \o s

\* Python "\n".join(frags) on strings given as lines
RECURSIVE JoinLines(_)
JoinLines(frags) ==
    IF frags = <<>> THEN EmptyStr
    ELSE IF Len(frags) = 1 THEN Head(frags)
    ELSE Head(frags) \o JoinLines(Tail(frags))

\* textwrap.dedent: blank lines are normalised to "", the margin common to the
\* other lines is removed.
IsBlank(l) == l.txt = ""
Margin(s) ==
    LET idx == { i \in 1..Len(s) : ~IsBlank(s[i]) }
    IN  IF idx = {} THEN 0
        ELSE CHOOSE m \in { s[i].ind : i \in idx } :
                \A i \in idx : m <= s[i].ind
dedent(s) ==
    [i \in 1..Len(s) |-> IF IsBlank(s[i]) THEN Line(0, "")
                         ELSE Line(s[i].ind - Margin(s), s[i].txt)]

\* pipes.quote on the file names the model uses
SafeNames == { "bid", "result.tgz" }
FileNames == SafeNames \cup { "my result.tgz" }
quote(s) == IF s = "" THEN "''"
            ELSE IF s \in SafeNames THEN s
            ELSE "'" \o s \o "'"

(***************************************************************************)
(* Configuration: the archive specs and the objects built from them.       *)
(***************************************************************************)
None == <<>>            \* Python None for an optional string
Some(x) == <<x>>

Cwd == "/cwd"
AbsPaths == { "/arc" }
SpecPaths == AbsPaths \cup { "rel" }
abspath(p) == IF p \in AbsPaths THEN p ELSE Cwd \o "/" \o p
BasePaths == { abspath(p) : p \in SpecPaths }
StorePaths == { <<base>> \o ShardKey(b) : base \in BasePaths, b \in BuildIds }

AllFlags == { "upload", "download" }
Commands == { None, Some(""), Some("cmd") }

\* spec.get("flags", ["upload", "download"])
GetFlags(spec) == IF spec.hasFlags THEN spec.flags ELSE AllFlags

Object(class, spec) ==
    [class |-> class,
     useDownload |-> FALSE, useUpload |-> FALSE,
     wantDownload |-> FALSE, wantUpload |-> FALSE,
     basePath |-> "", url |-> "",
     downloadCmd |-> None, uploadCmd |-> None, whiteList |-> {}]

DummyArchive == Object("DummyArchive", <<>>)

BaseArchive_init(self, spec) ==
    LET use == GetFlags(spec)
    IN  [self EXCEPT !.useDownload = "download" \in use,
                     !.useUpload = "upload" \in use,
                     !.wantDownload = FALSE,
                     !.wantUpload = FALSE]

LocalArchive(spec) ==
    [BaseArchive_init(Object("LocalArchive", spec), spec)
        EXCEPT !.basePath = abspath(spec.path)]

SimpleHttpArchive(spec) ==
    [BaseArchive_init(Object("SimpleHttpArchive", spec), spec)
        EXCEPT !.url = spec.url]

CustomArchive(spec, whiteList) ==
    [BaseArchive_init(Object("CustomArchive", spec), spec)
        EXCEPT !.downloadCmd = spec.download,
               !.uploadCmd = spec.upload,
               !.whiteList = whiteList]

\* getSingleArchiver for the four valid backend names
getSingleArchiver(rcp, spec) ==
    CASE spec.backend = "file" -> LocalArchive(spec)
      [] spec.backend = "http" -> SimpleHttpArchive(spec)
      [] spec.backend = "shell" -> CustomArchive(spec, rcp.envWhiteList)
      [] spec.backend = "none" -> DummyArchive

\* getArchiver on a list of specs: the members of the MultiArchive
getArchiver(rcp) ==
    [i \in 1..Len(rcp.archiveSpec) |-> getSingleArchiver(rcp, rcp.archiveSpec[i])]

(***************************************************************************)
(* Capabilities.                                                           *)
(***************************************************************************)
BaseArchive_wantDownload(self, enable) == [self EXCEPT !.wantDownload = enable]

\* a slip in wantUpload: the value lands in the download toggle
BaseArchive_wantUpload_slip(self, enable) == [self EXCEPT !.wantDownload = enable]

BaseArchive_wantUpload(self, enable) == [self EXCEPT !.wantUpload = enable]

BaseArchive_canDownload(self) == self.wantDownload /\ self.useDownload

BaseArchive_canUpload(self) == self.wantUpload /\ self.useUpload

CustomArchive_canDownload(self) ==
    BaseArchive_canDownload(self) /\ (self.downloadCmd # None)

CustomArchive_canUpload(self) ==
    BaseArchive_canUpload(self) /\ (self.uploadCmd # None)

\* method dispatch on the object's class
wantDownload(self, enable) ==
    IF self.class = "DummyArchive" THEN self
    ELSE BaseArchive_wantDownload(self, enable)

wantUpload(self, enable) ==
    IF self.class = "DummyArchive" THEN self
    ELSE BaseArchive_wantUpload(self, enable)

canDownload(self) ==
    CASE self.class = "DummyArchive" -> FALSE
      [] self.class = "CustomArchive" -> CustomArchive_canDownload(self)
      [] OTHER -> BaseArchive_canDownload(self)

canUpload(self) ==
    CASE self.class = "DummyArchive" -> FALSE
      [] self.class = "CustomArchive" -> CustomArchive_canUpload(self)
      [] OTHER -> BaseArchive_canUpload(self)

(***************************************************************************)
(* Script emission: upload(step, buildIdFile, tgzFile) and download(...).  *)
(* The templates are given line by line, with the indentation they have in *)
(* the source, and dedented as the code does after formatting them.        *)
(***************************************************************************)
HexdumpSharded == "$(hexdump -e '2/1 \"%02x/\" 14/1 \"%02x\"' "
HexdumpFlat == "$(hexdump -ve '/1 \"%02x\"' "

LocalArchive_uploadFragment(self, buildIdFile, tgzFile) ==
    NewlinePlus(dedent(<<
        Line(12, "# upload artifact"),
        Line(12, "cd $WORKSPACE"),
        Line(12, "BOB_UPLOAD_FILE=\"" \o self.basePath \o "/" \o HexdumpSharded
                    \o quote(buildIdFile) \o ").tgz\""),
        Line(12, "if [[ ! -e ${BOB_UPLOAD_FILE} ]] ; then"),
        Line(16, "mkdir -p \"${BOB_UPLOAD_FILE%/*}\""),
        Line(16, "cp " \o quote(tgzFile) \o " \"$BOB_UPLOAD_FILE\""),
        Line(12, "fi") >>))

LocalArchive_upload(self, buildIdFile, tgzFile) ==
    IF BaseArchive_canUpload(self) THEN EmptyStr
    ELSE LocalArchive_uploadFragment(self, buildIdFile, tgzFile)

LocalArchive_download(self, buildIdFile, tgzFile) ==
    IF ~BaseArchive_canDownload(self) THEN EmptyStr
    ELSE NewlinePlus(dedent(<<
        Line(12, "if [[ ! -e " \o quote(tgzFile) \o " ]] ; then"),
        Line(16, "BOB_DOWNLOAD_FILE=\"" \o self.basePath \o "/" \o HexdumpSharded
                    \o quote(buildIdFile) \o ").tgz\""),
        Line(16, "cp \"$BOB_DOWNLOAD_FILE\" " \o quote(tgzFile)
                    \o " || echo Download failed: $?"),
        Line(12, "fi"),
        Line(12, "") >>))

SimpleHttpArchive_upload(self, buildIdFile, tgzFile) ==
    IF ~BaseArchive_canUpload(self) THEN EmptyStr
    ELSE NewlinePlus(dedent(<<
        Line(12, "# upload artifact"),
        Line(12, "cd $WORKSPACE"),
        Line(12, "BOB_UPLOAD_URL=\"" \o self.url \o "/" \o HexdumpSharded
                    \o quote(buildIdFile) \o ").tgz\""),
        Line(12, "if ! curl --output /dev/null --silent --head --fail "
                    \o "\"$BOB_UPLOAD_URL\" ; then"),
        Line(16, "curl -sSg -T " \o quote(tgzFile)
                    \o " \"$BOB_UPLOAD_URL\" || echo Upload failed: $?"),
        Line(12, "fi") >>))

SimpleHttpArchive_download(self, buildIdFile, tgzFile) ==
    IF ~BaseArchive_canDownload(self) THEN EmptyStr
    ELSE NewlinePlus(dedent(<<
        Line(12, "if [[ ! -e " \o quote(tgzFile) \o " ]] ; then"),
        Line(16, "BOB_DOWNLOAD_URL=\"" \o self.url \o "/" \o HexdumpSharded
                    \o quote(buildIdFile) \o ").tgz\""),
        Line(16, "curl -sSg --fail -o " \o quote(tgzFile)
                    \o " \"$BOB_DOWNLOAD_URL\" || echo Download failed: $?"),
        Line(12, "fi"),
        Line(12, "") >>))

CustomArchive_upload(self, buildIdFile, tgzFile) ==
    IF ~CustomArchive_canUpload(self) THEN EmptyStr
    ELSE NewlinePlus(dedent(<<
        Line(12, "# upload artifact"),
        Line(12, "cd $WORKSPACE"),
        Line(12, "BOB_UPLOAD_BID=\"" \o HexdumpFlat \o quote(buildIdFile) \o ")\""),
        Line(12, "BOB_LOCAL_ARTIFACT=" \o quote(tgzFile)),
        Line(12, "BOB_REMOTE_ARTIFACT=\"${BOB_UPLOAD_BID:0:2}/"
                    \o "${BOB_UPLOAD_BID:2:2}/${BOB_UPLOAD_BID:4}.tgz\""),
        Line(12, self.uploadCmd[1]),
        Line(12, "") >>))

CustomArchive_download(self, buildIdFile, tgzFile) ==
    IF ~CustomArchive_canDownload(self) THEN EmptyStr
    ELSE NewlinePlus(dedent(<<
        Line(12, "if [[ ! -e " \o quote(tgzFile) \o " ]] ; then"),
        Line(16, "BOB_DOWNLOAD_BID=\"" \o HexdumpFlat \o quote(buildIdFile) \o ")\""),
        Line(16, "BOB_LOCAL_ARTIFACT=" \o quote(tgzFile)),
        Line(16, "BOB_REMOTE_ARTIFACT=\"${BOB_DOWNLOAD_BID:0:2}/"
                    \o "${BOB_DOWNLOAD_BID:2:2}/${BOB_DOWNLOAD_BID:4}.tgz\""),
        Line(16, self.downloadCmd[1]),
        Line(12, "fi"),
        Line(12, "") >>))

upload(self, buildIdFile, tgzFile) ==
    CASE self.class = "DummyArchive" -> EmptyStr
      [] self.class = "LocalArchive" -> LocalArchive_upload(self, buildIdFile, tgzFile)
      [] self.class = "SimpleHttpArchive" ->
            SimpleHttpArchive_upload(self, buildIdFile, tgzFile)
      [] self.class = "CustomArchive" -> CustomArchive_upload(self, buildIdFile, tgzFile)

download(self, buildIdFile, tgzFile) ==
    CASE self.class = "DummyArchive" -> EmptyStr
      [] self.class = "LocalArchive" -> LocalArchive_download(self, buildIdFile, tgzFile)
      [] self.class = "SimpleHttpArchive" ->
            SimpleHttpArchive_download(self, buildIdFile, tgzFile)
      [] self.class = "CustomArchive" ->
            CustomArchive_download(self, buildIdFile, tgzFile)

(***************************************************************************)
(* What the fragments compute when the shell runs them: hexdump -e applies *)
(* the units of its format, in order, to the bytes of the identifier file, *)
(* block after block; a unit "n/1 "%02x" lit" prints n times one byte as   *)
(* two lowercase hex digits followed by lit; where the bytes run out inside*)
(* a block the conversion prints blanks of its width, the literal stays.   *)
(* Texts are sequences of characters here.                                 *)
(***************************************************************************)
\* '2/1 "%02x/" 14/1 "%02x"' of the filesystem and HTTP fragments
ShardedUnits == << [iter |-> 2, lit |-> << "/" >>], [iter |-> 14, lit |-> <<>>] >>

\* '/1 "%02x"' of the external-command fragments
FlatUnits == << [iter |-> 1, lit |-> <<>>] >>

HexByte(b) == << HexDigits[(b \div 16) + 1], HexDigits[(b % 16) + 1] >>

\* the units of a format written out, one entry per byte consumed
RECURSIVE Conversions(_)
Conversions(units) ==
    IF units = <<>> THEN <<>>
    ELSE [k \in 1..Head(units).iter |-> Head(units).lit] \o Conversions(Tail(units))

\* one pass of the format over a block of at most Len(convs) bytes
RECURSIVE HexdumpBlock(_, _)
HexdumpBlock(convs, data) ==
    IF convs = <<>> THEN <<>>
    ELSE IF data = <<>>
         THEN << " ", " " >> \o Head(convs) \o HexdumpBlock(Tail(convs), <<>>)
    ELSE HexByte(Head(data)) \o Head(convs) \o HexdumpBlock(Tail(convs), Tail(data))

RECURSIVE hexdump(_, _)
hexdump(units, data) ==
    LET convs == Conversions(units)
        n == Len(convs)
    IN  IF data = <<>> THEN <<>>
        ELSE HexdumpBlock(convs, Slice(data, 0, n))
                \o hexdump(units, Slice(data, n, Len(data)))

\* a text split at "/" into the components of a path
RECURSIVE SplitPath(_, _)
SplitPath(chars, component) ==
    IF chars = <<>> THEN << component >>
    ELSE IF Head(chars) = "/" THEN << component >> \o SplitPath(Tail(chars), "")
    ELSE SplitPath(Tail(chars), component \o Head(chars))

\* the file, URL or key the fragments of the backend compute for an
\* identifier file holding the bytes buildId:
\*   "{DIR}/$(hexdump -e '2/1 "%02x/" 14/1 "%02x"' {BUILDID}).tgz"
\*   "{URL}/$(hexdump -e '2/1 "%02x/" 14/1 "%02x"' {BUILDID}).tgz"
\*   "${BID:0:2}/${BID:2:2}/${BID:4}.tgz" with BID="$(hexdump -ve '/1 "%02x"' ..)"
ScriptLocation(self, buildId) ==
    LET tgz == << ".", "t", "g", "z" >>
        sharded == SplitPath(hexdump(ShardedUnits, buildId) \o tgz, "")
        bid == hexdump(FlatUnits, buildId)
    IN  CASE self.class = "LocalArchive" -> << self.basePath >> \o sharded
          [] self.class = "SimpleHttpArchive" -> << self.url >> \o sharded
          [] self.class = "CustomArchive" ->
                << Concat(Slice(bid, 0, 2)), Concat(Slice(bid, 2, 4)),
                   Concat(Slice(bid, 4, Len(bid))) \o ".tgz" >>

\* the file, URL or key direct mode uses for the identifier
DirectLocation(self, buildId) ==
    CASE self.class = "LocalArchive" -> packageResultFile(self, buildId)
      [] self.class = "SimpleHttpArchive" -> SimpleHttpArchive_makeUrl(self, buildId)
      [] self.class = "CustomArchive" -> CustomArchive_makeUrl(self, buildId)

(***************************************************************************)
(* Direct transfers.  A method takes the world w = [files, dirs, tmp], its *)
(* arguments and the answers x of the environment (HTTP responses, exit    *)
(* status of the command, local I/O) and yields [w, res, ev]: the world    *)
(* after the call, the value returned ("None", "True", "False") or the     *)
(* class of the exception raised, and the requests and commands issued.    *)
(***************************************************************************)
R(w, res, ev) == [w |-> w, res |-> res, ev |-> ev]

\* an event: what was issued, by which member of a MultiArchive (0: none), with
\* its argument (the URL, the command, or the value a member returned), the
\* archive sent, the environment handed over and the answer it got
Ev(ev, arg, data, env, answer) ==
    [ev |-> ev, who |-> 0, arg |-> arg, data |-> data, env |-> env, answer |-> answer]

Raised == { "BuildError", "OSError", "ReadError" }

HttpOk == [kind |-> "ok", code |-> 200]
HttpError(code) == [kind |-> "HTTPError", code |-> code]
UrlError == [kind |-> "URLError", code |-> 0]
Responses == { HttpOk, HttpError(HTTP_NOT_FOUND), HttpError(500), UrlError }

ExitStatus == { 0, 1 }
Exit(status) == [kind |-> "exit", code |-> status]
NoAnswer == [kind |-> "", code |-> 0]
\* what a GET or the download command delivers: an archive, or no archive
Bodies == { Tgz(Tree2), PartialTgz }

\* the names mkstemp() may return
TmpNames == { "/tmp/tmpA", "/tmp/tmpB" }

\* the answers of the environment during one call
Answers == [head : Responses, put : Responses, get : Responses,
            body : Bodies, io : { "ok", "fail" }, exit : ExitStatus,
            tmpName : TmpNames]
Quiet == [head |-> HttpOk, put |-> HttpOk, get |-> HttpOk,
          body |-> PartialTgz, io |-> "ok", exit |-> 0, tmpName |-> "/tmp/tmpA"]

\* utils.removePath: removes the path, a file or a whole tree, if it exists
removePath(w, path) == [w EXCEPT !.dirs[path] = NoDir]

\* os.makedirs(path) of a path that does not exist
makedirs(w, path) == [w EXCEPT !.dirs[path] = Dir({})]

\* tar.extractall(path): the entries are written into the directory, files
\* already there under other names stay
extractall(w, entries, path) ==
    [w EXCEPT !.dirs[path] =
        Dir(entries \cup { f \in w.dirs[path].files :
                             \A e \in entries : e[1] # f[1] })]

\* uploadPackage without the existence check: a stored file is written again
LocalArchive_uploadPackage_overwrite(self, w, buildId, path) ==
    LET file == packageResultFile(self, buildId)
    IN  IF ~BaseArchive_canUpload(self) THEN R(w, "None", <<>>)
        ELSE IF ~w.dirs[path].exists
             THEN R([w EXCEPT !.files[file] = PartialTgz], "OSError", <<>>)
        ELSE R([w EXCEPT !.files[file] = Tgz(w.dirs[path].files)], "None", <<>>)

LocalArchive_uploadPackage(self, w, buildId, path) ==
    LET file == packageResultFile(self, buildId)
    IN  IF ~BaseArchive_canUpload(self) THEN R(w, "None", <<>>)
        ELSE IF w.files[file].exists THEN R(w, "None", <<>>)
        ELSE IF ~w.dirs[path].exists
             THEN R([w EXCEPT !.files[file] = PartialTgz], "OSError", <<>>)
        ELSE R([w EXCEPT !.files[file] = Tgz(w.dirs[path].files)], "None", <<>>)

\* downloadPackage that extracts into the directory as it is, without
\* removing it first
LocalArchive_downloadPackage_merge(self, w, buildId, path) ==
    LET file == packageResultFile(self, buildId)
        w1 == [w EXCEPT !.dirs[path] = Dir(@.files)]
    IN  IF ~BaseArchive_canDownload(self) THEN R(w, "False", <<>>)
        ELSE IF w.files[file].exists
             THEN IF ~w.files[file].complete THEN R(w1, "ReadError", <<>>)
                  ELSE R(extractall(w1, w.files[file].entries, path), "True", <<>>)
        ELSE R(w, "False", <<>>)

LocalArchive_downloadPackage(self, w, buildId, path) ==
    LET file == packageResultFile(self, buildId)
    IN  IF ~BaseArchive_canDownload(self) THEN R(w, "False", <<>>)
        ELSE IF w.files[file].exists
             THEN LET w1 == makedirs(removePath(w, path), path)
                  IN  IF ~w.files[file].complete THEN R(w1, "ReadError", <<>>)
                      ELSE R(extractall(w1, w.files[file].entries, path), "True", <<>>)
        ELSE R(w, "False", <<>>)

\* leaving the with block of a TemporaryFile() closes and so deletes it
close(w, tmpFile) == [w EXCEPT !.tmp = @ \ { tmpFile }]

\* uploadPackage that goes on to the PUT whatever error the HEAD met
SimpleHttpArchive_uploadPackage_blind(self, w, buildId, path, x) ==
    LET url == SimpleHttpArchive_makeUrl(self, buildId)
        head == Ev("HEAD", url, NoFile, {}, x.head)
        put == Ev("PUT", url, Tgz(w.dirs[path].files), {}, x.put)
        tmpFile == <<"TemporaryFile", url>>
        w1 == [w EXCEPT !.tmp = @ \cup { tmpFile }]
    IN  IF ~BaseArchive_canUpload(self) THEN R(w, "None", <<>>)
        ELSE IF x.head.kind = "ok" THEN R(w, "None", <<head>>)
        ELSE IF ~w.dirs[path].exists THEN R(close(w1, tmpFile), "OSError", <<head>>)
        ELSE IF x.put.kind = "ok" THEN R(close(w1, tmpFile), "None", <<head, put>>)
        ELSE R(close(w1, tmpFile), "BuildError", <<head, put>>)

SimpleHttpArchive_uploadPackage(self, w, buildId, path, x) ==
    LET url == SimpleHttpArchive_makeUrl(self, buildId)
        head == Ev("HEAD", url, NoFile, {}, x.head)
        put == Ev("PUT", url, Tgz(w.dirs[path].files), {}, x.put)
        tmpFile == <<"TemporaryFile", url>>
        w1 == [w EXCEPT !.tmp = @ \cup { tmpFile }]
    IN  IF ~BaseArchive_canUpload(self) THEN R(w, "None", <<>>)
        ELSE IF x.head.kind = "ok" THEN R(w, "None", <<head>>)
        ELSE IF x.head.kind = "HTTPError" /\ x.head.code # HTTP_NOT_FOUND
             THEN R(w, "BuildError", <<head>>)
        ELSE IF x.head.kind = "URLError" THEN R(w, "BuildError", <<head>>)
        ELSE IF ~w.dirs[path].exists THEN R(close(w1, tmpFile), "OSError", <<head>>)
        ELSE IF x.put.kind = "ok" THEN R(close(w1, tmpFile), "None", <<head, put>>)
        ELSE R(close(w1, tmpFile), "BuildError", <<head, put>>)

\* urllib.request.urlcleanup: removes the temporary files of urlretrieve
urlcleanup(w) == [w EXCEPT !.tmp = { t \in w.tmp : t[1] # "urlretrieve" }]

\* downloadPackage that lets every error of the GET abort the build
SimpleHttpArchive_downloadPackage_fatal(self, w, buildId, path, x) ==
    LET url == SimpleHttpArchive_makeUrl(self, buildId)
        get == Ev("GET", url, NoFile, {}, x.get)
        w1 == [w EXCEPT !.tmp = @ \cup { <<"urlretrieve", url>> }]
        w2 == makedirs(removePath(w1, path), path)
    IN  IF ~BaseArchive_canDownload(self) THEN R(w, "False", <<>>)
        ELSE IF x.get.kind # "ok" THEN R(urlcleanup(w), "BuildError", <<get>>)
        ELSE IF ~x.body.complete THEN R(urlcleanup(w2), "ReadError", <<get>>)
        ELSE IF x.io = "fail" THEN R(urlcleanup(w2), "BuildError", <<get>>)
        ELSE R(urlcleanup(extractall(w2, x.body.entries, path)), "True", <<get>>)

\* downloadPackage that tells 404 from the other HTTP errors, as the upload does
SimpleHttpArchive_downloadPackage_strict(self, w, buildId, path, x) ==
    LET url == SimpleHttpArchive_makeUrl(self, buildId)
        get == Ev("GET", url, NoFile, {}, x.get)
        w1 == [w EXCEPT !.tmp = @ \cup { <<"urlretrieve", url>> }]
        w2 == makedirs(removePath(w1, path), path)
    IN  IF ~BaseArchive_canDownload(self) THEN R(w, "False", <<>>)
        ELSE IF x.get.kind = "HTTPError" /\ x.get.code # HTTP_NOT_FOUND
             THEN R(urlcleanup(w), "BuildError", <<get>>)
        ELSE IF x.get.kind # "ok" THEN R(urlcleanup(w), "False", <<get>>)
        ELSE IF ~x.body.complete THEN R(urlcleanup(w2), "ReadError", <<get>>)
        ELSE IF x.io = "fail" THEN R(urlcleanup(w2), "BuildError", <<get>>)
        ELSE R(urlcleanup(extractall(w2, x.body.entries, path)), "True", <<get>>)

SimpleHttpArchive_downloadPackage(self, w, buildId, path, x) ==
    LET url == SimpleHttpArchive_makeUrl(self, buildId)
        get == Ev("GET", url, NoFile, {}, x.get)
        w1 == [w EXCEPT !.tmp = @ \cup { <<"urlretrieve", url>> }]
        w2 == makedirs(removePath(w1, path), path)
    IN  IF ~BaseArchive_canDownload(self) THEN R(w, "False", <<>>)
        ELSE IF x.get.kind # "ok" THEN R(urlcleanup(w), "False", <<get>>)
        ELSE IF ~x.body.complete THEN R(urlcleanup(w2), "ReadError", <<get>>)
        ELSE IF x.io = "fail" THEN R(urlcleanup(w2), "BuildError", <<get>>)
        ELSE R(urlcleanup(extractall(w2, x.body.entries, path)), "True", <<get>>)

\* the environment when the whole of os.environ is handed on
CustomArchive_env_inherit(self, osEnviron, tmpName, buildId) ==
    { kv \in osEnviron :
        kv[1] \notin { "BOB_LOCAL_ARTIFACT", "BOB_REMOTE_ARTIFACT" } }
        \cup { <<"BOB_LOCAL_ARTIFACT", tmpName>>,
               <<"BOB_REMOTE_ARTIFACT", CustomArchive_makeUrl(self, buildId)>> }

\* the environment handed to the command: the dict comprehension over
\* os.environ, then the two assignments, which replace an entry of that name
CustomArchive_env(self, osEnviron, tmpName, buildId) ==
    { kv \in osEnviron : kv[1] \in self.whiteList
                         /\ kv[1] \notin { "BOB_LOCAL_ARTIFACT", "BOB_REMOTE_ARTIFACT" } }
        \cup { <<"BOB_LOCAL_ARTIFACT", tmpName>>,
               <<"BOB_REMOTE_ARTIFACT", CustomArchive_makeUrl(self, buildId)>> }

unlink(w, tmpName) == [w EXCEPT !.tmp = @ \ { tmpName }]

\* uploadPackage that ignores the exit status of the command
CustomArchive_uploadPackage_lenient(self, w, osEnviron, buildId, path, x) ==
    LET tmpName == <<"mkstemp", x.tmpName>>
        w1 == [w EXCEPT !.tmp = @ \cup { tmpName }]
        spawn == Ev("spawn", <<self.uploadCmd[1]>>, Tgz(w.dirs[path].files),
                    CustomArchive_env(self, osEnviron, x.tmpName, buildId), Exit(x.exit))
    IN  IF ~CustomArchive_canUpload(self) THEN R(w, "None", <<>>)
        ELSE IF ~w.dirs[path].exists THEN R(unlink(w1, tmpName), "BuildError", <<>>)
        ELSE R(unlink(w1, tmpName), "None", <<spawn>>)

CustomArchive_uploadPackage(self, w, osEnviron, buildId, path, x) ==
    LET tmpName == <<"mkstemp", x.tmpName>>
        w1 == [w EXCEPT !.tmp = @ \cup { tmpName }]
        spawn == Ev("spawn", <<self.uploadCmd[1]>>, Tgz(w.dirs[path].files),
                    CustomArchive_env(self, osEnviron, x.tmpName, buildId), Exit(x.exit))
    IN  IF ~CustomArchive_canUpload(self) THEN R(w, "None", <<>>)
        ELSE IF ~w.dirs[path].exists THEN R(unlink(w1, tmpName), "BuildError", <<>>)
        ELSE IF x.exit # 0 THEN R(unlink(w1, tmpName), "BuildError", <<spawn>>)
        ELSE R(unlink(w1, tmpName), "None", <<spawn>>)

\* downloadPackage that clears the destination before it runs the command
CustomArchive_downloadPackage_eager(self, w, osEnviron, buildId, path, x) ==
    LET tmpName == <<"mkstemp", x.tmpName>>
        w1 == [w EXCEPT !.tmp = @ \cup { tmpName }]
        w2 == makedirs(removePath(w1, path), path)
        spawn == Ev("spawn", <<self.downloadCmd[1]>>,
                    IF x.exit = 0 THEN x.body ELSE NoFile,
                    CustomArchive_env(self, osEnviron, x.tmpName, buildId), Exit(x.exit))
    IN  IF ~CustomArchive_canDownload(self) THEN R(w, "False", <<>>)
        ELSE IF x.exit # 0 THEN R(unlink(w2, tmpName), "False", <<spawn>>)
        ELSE IF ~x.body.complete THEN R(unlink(w2, tmpName), "ReadError", <<spawn>>)
        ELSE IF x.io = "fail" THEN R(unlink(w2, tmpName), "BuildError", <<spawn>>)
        ELSE R(unlink(extractall(w2, x.body.entries, path), tmpName), "True", <<spawn>>)

\* downloadPackage whose unlink is the last statement of the try block instead
\* of a finally clause
CustomArchive_downloadPackage_leak(self, w, osEnviron, buildId, path, x) ==
    LET tmpName == <<"mkstemp", x.tmpName>>
        w1 == [w EXCEPT !.tmp = @ \cup { tmpName }]
        w2 == makedirs(removePath(w1, path), path)
        spawn == Ev("spawn", <<self.downloadCmd[1]>>,
                    IF x.exit = 0 THEN x.body ELSE NoFile,
                    CustomArchive_env(self, osEnviron, x.tmpName, buildId), Exit(x.exit))
    IN  IF ~CustomArchive_canDownload(self) THEN R(w, "False", <<>>)
        ELSE IF x.exit # 0 THEN R(unlink(w1, tmpName), "False", <<spawn>>)
        ELSE IF ~x.body.complete THEN R(w2, "ReadError", <<spawn>>)
        ELSE IF x.io = "fail" THEN R(w2, "BuildError", <<spawn>>)
        ELSE R(unlink(extractall(w2, x.body.entries, path), tmpName), "True", <<spawn>>)

CustomArchive_downloadPackage(self, w, osEnviron, buildId, path, x) ==
    LET tmpName == <<"mkstemp", x.tmpName>>
        w1 == [w EXCEPT !.tmp = @ \cup { tmpName }]
        w2 == makedirs(removePath(w1, path), path)
        \* data: what the command left in the temporary file
        spawn == Ev("spawn", <<self.downloadCmd[1]>>,
                    IF x.exit = 0 THEN x.body ELSE NoFile,
                    CustomArchive_env(self, osEnviron, x.tmpName, buildId), Exit(x.exit))
    IN  IF ~CustomArchive_canDownload(self) THEN R(w, "False", <<>>)
        ELSE IF x.exit # 0 THEN R(unlink(w1, tmpName), "False", <<spawn>>)
        ELSE IF ~x.body.complete THEN R(unlink(w2, tmpName), "ReadError", <<spawn>>)
        ELSE IF x.io = "fail" THEN R(unlink(w2, tmpName), "BuildError", <<spawn>>)
        ELSE R(unlink(extractall(w2, x.body.entries, path), tmpName), "True", <<spawn>>)

uploadPackage(self, w, osEnviron, buildId, path, x) ==
    CASE self.class = "DummyArchive" -> R(w, "None", <<>>)
      [] self.class = "LocalArchive" -> LocalArchive_uploadPackage(self, w, buildId, path)
      [] self.class = "SimpleHttpArchive" ->
            SimpleHttpArchive_uploadPackage(self, w, buildId, path, x)
      [] self.class = "CustomArchive" ->
            CustomArchive_uploadPackage(self, w, osEnviron, buildId, path, x)

downloadPackage(self, w, osEnviron, buildId, path, x) ==
    CASE self.class = "DummyArchive" -> R(w, "False", <<>>)
      [] self.class = "LocalArchive" ->
            LocalArchive_downloadPackage(self, w, buildId, path)
      [] self.class = "SimpleHttpArchive" ->
            SimpleHttpArchive_downloadPackage(self, w, buildId, path, x)
      [] self.class = "CustomArchive" ->
            CustomArchive_downloadPackage(self, w, osEnviron, buildId, path, x)

(***************************************************************************)
(* MultiArchive: the methods over the list of members.                     *)
(***************************************************************************)
MultiArchive_wantDownload(members, enable) ==
    [i \in 1..Len(members) |-> wantDownload(members[i], enable)]

\* wantUpload that reaches the first member only
MultiArchive_wantUpload_first(members, enable) ==
    [i \in 1..Len(members) |->
        IF i = 1 THEN wantUpload(members[i], enable) ELSE members[i]]

MultiArchive_wantUpload(members, enable) ==
    [i \in 1..Len(members) |-> wantUpload(members[i], enable)]

MultiArchive_canDownload(members) ==
    \E i \in 1..Len(members) : canDownload(members[i])

MultiArchive_canUpload(members) ==
    \E i \in 1..Len(members) : canUpload(members[i])

\* the call of a member's method and what it returned or raised
Called(method, i, r) ==
    << [Ev(method, <<r.res>>, NoFile, {}, NoAnswer) EXCEPT !.who = i] >>

\* the loop of uploadPackage from member i on; xs[i] are the environment's
\* answers to member i
RECURSIVE MultiArchive_uploadFrom(_, _, _, _, _, _, _)
MultiArchive_uploadFrom(members, i, w, osEnviron, buildId, path, xs) ==
    IF i > Len(members) THEN R(w, "None", <<>>)
    ELSE IF ~canUpload(members[i])
         THEN MultiArchive_uploadFrom(members, i + 1, w, osEnviron, buildId, path, xs)
    ELSE LET r == uploadPackage(members[i], w, osEnviron, buildId, path, xs[i])
             rest == MultiArchive_uploadFrom(members, i + 1, r.w, osEnviron,
                                             buildId, path, xs)
         IN  IF r.res \in Raised THEN R(r.w, r.res, Called("uploadPackage", i, r))
             ELSE R(rest.w, rest.res, Called("uploadPackage", i, r) \o rest.ev)

\* uploadPackage that stops after the first member that uploads
RECURSIVE MultiArchive_uploadFirst(_, _, _, _, _, _, _)
MultiArchive_uploadFirst(members, i, w, osEnviron, buildId, path, xs) ==
    IF i > Len(members) THEN R(w, "None", <<>>)
    ELSE IF ~canUpload(members[i])
         THEN MultiArchive_uploadFirst(members, i + 1, w, osEnviron, buildId, path, xs)
    ELSE LET r == uploadPackage(members[i], w, osEnviron, buildId, path, xs[i])
         IN  R(r.w, r.res, Called("uploadPackage", i, r))

MultiArchive_uploadPackage_first(members, w, osEnviron, buildId, path, xs) ==
    MultiArchive_uploadFirst(members, 1, w, osEnviron, buildId, path, xs)

MultiArchive_uploadPackage(members, w, osEnviron, buildId, path, xs) ==
    MultiArchive_uploadFrom(members, 1, w, osEnviron, buildId, path, xs)

RECURSIVE MultiArchive_downloadFrom(_, _, _, _, _, _, _)
MultiArchive_downloadFrom(members, i, w, osEnviron, buildId, path, xs) ==
    IF i > Len(members) THEN R(w, "False", <<>>)
    ELSE IF ~canDownload(members[i])
         THEN MultiArchive_downloadFrom(members, i + 1, w, osEnviron, buildId, path, xs)
    ELSE LET r == downloadPackage(members[i], w, osEnviron, buildId, path, xs[i])
             rest == MultiArchive_downloadFrom(members, i + 1, r.w, osEnviron,
                                               buildId, path, xs)
         IN  IF r.res \in Raised THEN R(r.w, r.res, Called("downloadPackage", i, r))
             ELSE IF r.res = "True"
                  THEN R(r.w, "True", Called("downloadPackage", i, r))
             ELSE R(rest.w, rest.res, Called("downloadPackage", i, r) \o rest.ev)

\* downloadPackage that asks every capable member and reports whether any
\* of them succeeded
RECURSIVE MultiArchive_downloadAll(_, _, _, _, _, _, _)
MultiArchive_downloadAll(members, i, w, osEnviron, buildId, path, xs) ==
    IF i > Len(members) THEN R(w, "False", <<>>)
    ELSE IF ~canDownload(members[i])
         THEN MultiArchive_downloadAll(members, i + 1, w, osEnviron, buildId, path, xs)
    ELSE LET r == downloadPackage(members[i], w, osEnviron, buildId, path, xs[i])
             rest == MultiArchive_downloadAll(members, i + 1, r.w, osEnviron,
                                              buildId, path, xs)
         IN  IF r.res \in Raised THEN R(r.w, r.res, Called("downloadPackage", i, r))
             ELSE R(rest.w,
                    IF r.res = "True" /\ rest.res = "False" THEN "True" ELSE rest.res,
                    Called("downloadPackage", i, r) \o rest.ev)

MultiArchive_downloadPackage_all(members, w, osEnviron, buildId, path, xs) ==
    MultiArchive_downloadAll(members, 1, w, osEnviron, buildId, path, xs)

MultiArchive_downloadPackage(members, w, osEnviron, buildId, path, xs) ==
    MultiArchive_downloadFrom(members, 1, w, osEnviron, buildId, path, xs)

\* the fragments of the members that pass the filter, in list order
RECURSIVE SelectFrags(_, _)
SelectFrags(frags, keep) ==
    IF frags = <<>> THEN <<>>
    ELSE (IF Head(keep) THEN << Head(frags) >> ELSE <<>>)
            \o SelectFrags(Tail(frags), Tail(keep))

MultiArchive_upload(members, buildIdFile, tgzFile) ==
    JoinLines(SelectFrags([i \in 1..Len(members) |->
                                upload(members[i], buildIdFile, tgzFile)],
                          [i \in 1..Len(members) |-> canUpload(members[i])]))

MultiArchive_download(members, buildIdFile, tgzFile) ==
    JoinLines(SelectFrags([i \in 1..Len(members) |->
                                download(members[i], buildIdFile, tgzFile)],
                          [i \in 1..Len(members) |-> canDownload(members[i])]))

(***************************************************************************)
(* The state machine.  Every call on a backend is one action.              *)
(***************************************************************************)
World == [files |-> files, dirs |-> dirs, tmp |-> tmp]

NoCall == [op |-> "none", who |-> 0, can |-> FALSE, cans |-> <<>>, bid |-> <<>>, dir |-> "",
           src |-> NoDir, pre |-> NoFile, amb |-> {}, res |-> "", frag |-> EmptyStr,
           args |-> <<>>, ev |-> <<>>]

\* the file a filesystem backend holds for the identifier
Stored(self, buildId) ==
    IF self.class = "LocalArchive" THEN files[packageResultFile(self, buildId)]
    ELSE NoFile

\* the answers of the environment a call of the method on self can depend on
UploadAnswers(self) ==
    IF ~canUpload(self) THEN { Quiet }
    ELSE CASE self.class = "SimpleHttpArchive" ->
                { [Quiet EXCEPT !.head = h] : h \in Responses }
                \cup { [Quiet EXCEPT !.head = HttpError(HTTP_NOT_FOUND), !.put = p] :
                            p \in Responses }
           [] self.class = "CustomArchive" ->
                { [Quiet EXCEPT !.exit = e, !.tmpName = t] :
                        e \in ExitStatus, t \in TmpNames }
           [] OTHER -> { Quiet }

DownloadAnswers(self) ==
    IF ~canDownload(self) THEN { Quiet }
    ELSE CASE self.class = "SimpleHttpArchive" ->
                { [Quiet EXCEPT !.get = g] : g \in Responses \ { HttpOk } }
                \cup { [Quiet EXCEPT !.body = b] : b \in Bodies }
                \cup { [Quiet EXCEPT !.body = Tgz(Tree2), !.io = "fail"] }
           [] self.class = "CustomArchive" ->
                { [Quiet EXCEPT !.exit = 1, !.tmpName = t] : t \in TmpNames }
                \cup { [Quiet EXCEPT !.body = b, !.tmpName = t] :
                            b \in Bodies, t \in TmpNames }
                \cup { [Quiet EXCEPT !.body = Tgz(Tree2), !.io = "fail"] }
           [] OTHER -> { Quiet }

\* the threads of the build that call into one backend
Threads == { 1, 2 }

\* a thread that is in no call
Idle == [pc |-> "idle", op |-> "", bid |-> <<>>, dir |-> "", x |-> Quiet,
         tmpName |-> <<>>, seen |-> NoFile, got |-> NoFile, res |-> ""]

\* the state right after getArchiver(recipes), nothing stored, no call made
Constructed(rcp, osEnviron, workspace) ==
    /\ recipes = rcp
    /\ environ = osEnviron
    /\ archives = getArchiver(rcp)
    /\ passed = [i \in 1..Len(rcp.archiveSpec) |-> [upload |-> FALSE, download |-> FALSE]]
    /\ files = [f \in StorePaths |-> NoFile]
    /\ dirs = workspace
    /\ tmp = {}
    /\ last = NoCall
    /\ calls = [t \in Threads |-> Idle]

WantUpload ==
    \E i \in 1..Len(archives), enable \in BOOLEAN :
        /\ archives' = [archives EXCEPT ![i] = wantUpload(@, enable)]
        /\ passed' = [passed EXCEPT ![i].upload = enable]
        /\ last' = NoCall
        /\ UNCHANGED <<recipes, environ, files, dirs, tmp, calls>>

WantDownload ==
    \E i \in 1..Len(archives), enable \in BOOLEAN :
        /\ archives' = [archives EXCEPT ![i] = wantDownload(@, enable)]
        /\ passed' = [passed EXCEPT ![i].download = enable]
        /\ last' = NoCall
        /\ UNCHANGED <<recipes, environ, files, dirs, tmp, calls>>

Upload ==
    \E i \in 1..Len(archives), buildIdFile \in FileNames, tgzFile \in FileNames :
        /\ last' = [NoCall EXCEPT !.op = "upload", !.who = i,
                                  !.can = canUpload(archives[i]),
                                  !.frag = upload(archives[i], buildIdFile, tgzFile)]
        /\ UNCHANGED <<recipes, environ, archives, passed, files, dirs, tmp, calls>>

Download ==
    \E i \in 1..Len(archives), buildIdFile \in FileNames, tgzFile \in FileNames :
        /\ last' = [NoCall EXCEPT !.op = "download", !.who = i,
                                  !.can = canDownload(archives[i]),
                                  !.frag = download(archives[i], buildIdFile, tgzFile)]
        /\ UNCHANGED <<recipes, environ, archives, passed, files, dirs, tmp, calls>>

\* the world and the record of the call after a transfer call that gave r; the
\* record keeps what the directory, the stored file and (for a MultiArchive)
\* the members' capabilities were when it was made
Transferred(op, i, can, cans, buildId, path, r) ==
    /\ files' = r.w.files
    /\ dirs' = r.w.dirs
    /\ tmp' = r.w.tmp
    /\ last' = [NoCall EXCEPT !.op = op, !.who = i, !.can = can, !.cans = cans,
                              !.bid = buildId,
                              !.dir = path, !.src = dirs[path],
                              !.pre = IF i = 0 THEN NoFile
                                      ELSE Stored(archives[i], buildId),
                              !.amb = environ,
                              !.res = r.res, !.ev = r.ev]
    /\ UNCHANGED <<recipes, environ, archives, passed, calls>>

UploadPackage ==
    \E i \in 1..Len(archives), buildId \in BuildIds, path \in DirNames :
        \E x \in UploadAnswers(archives[i]) :
            Transferred("uploadPackage", i, canUpload(archives[i]), <<>>, buildId, path,
                        uploadPackage(archives[i], World, environ, buildId, path, x))

DownloadPackage ==
    \E i \in 1..Len(archives), buildId \in BuildIds, path \in DirNames :
        \E x \in DownloadAnswers(archives[i]) :
            Transferred("downloadPackage", i, canDownload(archives[i]), <<>>, buildId, path,
                        downloadPackage(archives[i], World, environ, buildId, path, x))

\* the answers to the members during one call on the MultiArchive: a member
\* that is not reached, because an earlier one ended the call, is not answered
Unasked(members) == [k \in 1..Len(members) |-> Quiet]

RECURSIVE MemberUploadAnswers(_, _, _, _)
MemberUploadAnswers(members, w, buildId, path) ==
    IF members = <<>> THEN { <<>> }
    ELSE UNION {
            LET r == uploadPackage(Head(members), w, environ, buildId, path, x)
            IN  IF canUpload(Head(members)) /\ r.res \in Raised
                THEN { <<x>> \o Unasked(Tail(members)) }
                ELSE { <<x>> \o rest :
                        rest \in MemberUploadAnswers(Tail(members), r.w, buildId, path) }
            : x \in UploadAnswers(Head(members)) }

RECURSIVE MemberDownloadAnswers(_, _, _, _)
MemberDownloadAnswers(members, w, buildId, path) ==
    IF members = <<>> THEN { <<>> }
    ELSE UNION {
            LET r == downloadPackage(Head(members), w, environ, buildId, path, x)
            IN  IF canDownload(Head(members)) /\ r.res # "False"
                THEN { <<x>> \o Unasked(Tail(members)) }
                ELSE { <<x>> \o rest :
                        rest \in MemberDownloadAnswers(Tail(members), r.w, buildId, path) }
            : x \in DownloadAnswers(Head(members)) }

\* the identifier the calls on the MultiArchive are made with: it is handed
\* to the members as it is
MultiIds == { CHOOSE b \in BuildIds : TRUE }

MultiWantUpload ==
    \E enable \in BOOLEAN :
        /\ archives' = MultiArchive_wantUpload(archives, enable)
        /\ passed' = [i \in 1..Len(passed) |-> [passed[i] EXCEPT !.upload = enable]]
        /\ last' = NoCall
        /\ UNCHANGED <<recipes, environ, files, dirs, tmp, calls>>

MultiWantDownload ==
    \E enable \in BOOLEAN :
        /\ archives' = MultiArchive_wantDownload(archives, enable)
        /\ passed' = [i \in 1..Len(passed) |-> [passed[i] EXCEPT !.download = enable]]
        /\ last' = NoCall
        /\ UNCHANGED <<recipes, environ, files, dirs, tmp, calls>>

MultiUploadPackage ==
    \E buildId \in MultiIds, path \in DirNames :
        \E xs \in MemberUploadAnswers(archives, World, buildId, path) :
            Transferred("Multi.uploadPackage", 0, MultiArchive_canUpload(archives),
                        [i \in 1..Len(archives) |-> canUpload(archives[i])],
                        buildId, path,
                        MultiArchive_uploadPackage(archives, World, environ,
                                                   buildId, path, xs))

MultiDownloadPackage ==
    \E buildId \in MultiIds, path \in DirNames :
        \E xs \in MemberDownloadAnswers(archives, World, buildId, path) :
            Transferred("Multi.downloadPackage", 0, MultiArchive_canDownload(archives),
                        [i \in 1..Len(archives) |-> canDownload(archives[i])],
                        buildId, path,
                        MultiArchive_downloadPackage(archives, World, environ,
                                                     buildId, path, xs))

MultiUpload ==
    \E buildIdFile \in FileNames, tgzFile \in FileNames :
        /\ last' = [NoCall EXCEPT
                        !.op = "Multi.upload",
                        !.can = MultiArchive_canUpload(archives),
                        !.cans = [i \in 1..Len(archives) |-> canUpload(archives[i])],
                        !.args = <<buildIdFile, tgzFile>>,
                        !.frag = MultiArchive_upload(archives, buildIdFile, tgzFile)]
        /\ UNCHANGED <<recipes, environ, archives, passed, files, dirs, tmp, calls>>

MultiDownload ==
    \E buildIdFile \in FileNames, tgzFile \in FileNames :
        /\ last' = [NoCall EXCEPT
                        !.op = "Multi.download",
                        !.can = MultiArchive_canDownload(archives),
                        !.cans = [i \in 1..Len(archives) |-> canDownload(archives[i])],
                        !.args = <<buildIdFile, tgzFile>>,
                        !.frag = MultiArchive_download(archives, buildIdFile, tgzFile)]
        /\ UNCHANGED <<recipes, environ, archives, passed, files, dirs, tmp, calls>>

\* the identifiers the fragments are run on: digests of 16 and of 20 bytes
IdLens == { 16, 20 }
DigestIds ==
    { [k \in 1..n |-> (seed + 17 * k) % 256] : seed \in { 0, 153, 250 }, n \in IdLens }

\* A fragment the backend emits is run on an identifier file, and the
\* location it computes is set beside the one direct mode uses.
Locate ==
    \E i \in 1..Len(archives), op \in { "upload", "download" }, buildId \in DigestIds :
        LET a == archives[i]
            frag == IF op = "upload" THEN upload(a, "bid", "result.tgz")
                    ELSE download(a, "bid", "result.tgz")
        IN  /\ frag # EmptyStr
            /\ last' = [NoCall EXCEPT
                            !.op = "locate", !.who = i, !.bid = buildId,
                            !.args = << op >>, !.frag = frag,
                            !.ev = << Ev("direct", DirectLocation(a, buildId),
                                         NoFile, {}, NoAnswer),
                                      Ev("script", ScriptLocation(a, buildId),
                                         NoFile, {}, NoAnswer) >>]
            /\ UNCHANGED <<recipes, environ, archives, passed, files, dirs, tmp, calls>>

(***************************************************************************)
(* Concurrent calls.  The threads of one process call into one backend,    *)
(* whose wanted flags were set before; a call advances statement by        *)
(* statement, and the statements of the calls interleave.  calls[t].seen   *)
(* is the stored file as the existence check found it, calls[t].got the    *)
(* archive as the call read it.                                            *)
(***************************************************************************)
\* the directories the concurrent steps pack, and the ones they unpack into
UploadDirs == { "d1" }
DownloadDirs == { "d2" }

Entered(op, buildId, path) ==
    [Idle EXCEPT !.op = op, !.bid = buildId, !.dir = path]

\* LocalArchive.uploadPackage up to the existence check
LocalUploadCheck(t) ==
    \E buildId \in BuildIds, path \in UploadDirs :
        LET self == archives[1]
            file == packageResultFile(self, buildId)
            c == Entered("uploadPackage", buildId, path)
        IN  /\ self.class = "LocalArchive"
            /\ calls[t].pc \in { "idle", "done" }
            /\ calls' = [calls EXCEPT ![t] =
                    IF ~BaseArchive_canUpload(self)
                    THEN [c EXCEPT !.pc = "done", !.res = "None"]
                    ELSE IF files[file].exists
                    THEN [c EXCEPT !.pc = "done", !.res = "None", !.seen = files[file]]
                    ELSE [c EXCEPT !.pc = "open"]]
            /\ UNCHANGED <<recipes, environ, archives, passed, files, dirs, tmp, last>>

\* tarfile.open(packageResultFile, "w:gz"): the file is created, or truncated
LocalUploadOpen(t) ==
    LET self == archives[1]
        file == packageResultFile(self, calls[t].bid)
    IN  /\ self.class = "LocalArchive"
        /\ calls[t].op = "uploadPackage" /\ calls[t].pc = "open"
        /\ files' = [files EXCEPT ![file] = PartialTgz]
        /\ calls' = [calls EXCEPT ![t].pc = "add"]
        /\ UNCHANGED <<recipes, environ, archives, passed, dirs, tmp, last>>

\* tar.add(path) and the end of the with block, which completes the archive
LocalUploadAdd(t) ==
    LET self == archives[1]
        file == packageResultFile(self, calls[t].bid)
        path == calls[t].dir
    IN  /\ self.class = "LocalArchive"
        /\ calls[t].op = "uploadPackage" /\ calls[t].pc = "add"
        /\ IF dirs[path].exists
           THEN /\ files' = [files EXCEPT ![file] = Tgz(dirs[path].files)]
                /\ calls' = [calls EXCEPT ![t].pc = "done", ![t].res = "None"]
           ELSE /\ files' = files
                /\ calls' = [calls EXCEPT ![t].pc = "done", ![t].res = "OSError"]
        /\ UNCHANGED <<recipes, environ, archives, passed, dirs, tmp, last>>

\* LocalArchive.downloadPackage up to the existence check
LocalDownloadCheck(t) ==
    \E buildId \in BuildIds, path \in DownloadDirs :
        LET self == archives[1]
            file == packageResultFile(self, buildId)
            c == Entered("downloadPackage", buildId, path)
        IN  /\ self.class = "LocalArchive"
            /\ calls[t].pc \in { "idle", "done" }
            /\ calls' = [calls EXCEPT ![t] =
                    IF ~BaseArchive_canDownload(self)
                    THEN [c EXCEPT !.pc = "done", !.res = "False"]
                    ELSE IF files[file].exists
                    THEN [c EXCEPT !.pc = "clear", !.seen = files[file]]
                    ELSE [c EXCEPT !.pc = "done", !.res = "False"]]
            /\ UNCHANGED <<recipes, environ, archives, passed, files, dirs, tmp, last>>

\* removePath(path); os.makedirs(path)
LocalDownloadClear(t) ==
    /\ archives[1].class = "LocalArchive"
    /\ calls[t].op = "downloadPackage" /\ calls[t].pc = "clear"
    /\ dirs' = makedirs(removePath(World, calls[t].dir), calls[t].dir).dirs
    /\ calls' = [calls EXCEPT ![t].pc = "extract"]
    /\ UNCHANGED <<recipes, environ, archives, passed, files, tmp, last>>

\* tarfile.open(packageResultFile, "r:gz") and tar.extractall(path)
LocalDownloadExtract(t) ==
    LET self == archives[1]
        file == packageResultFile(self, calls[t].bid)
        path == calls[t].dir
    IN  /\ self.class = "LocalArchive"
        /\ calls[t].op = "downloadPackage" /\ calls[t].pc = "extract"
        /\ IF ~files[file].complete
           THEN /\ dirs' = dirs
                /\ calls' = [calls EXCEPT ![t].pc = "done", ![t].res = "ReadError",
                                          ![t].got = files[file]]
           ELSE /\ dirs' = extractall(World, files[file].entries, path).dirs
                /\ calls' = [calls EXCEPT ![t].pc = "done", ![t].res = "True",
                                          ![t].got = files[file]]
        /\ UNCHANGED <<recipes, environ, archives, passed, files, tmp, last>>

\* SimpleHttpArchive.downloadPackage up to the return of urlretrieve, which
\* keeps the body in a fresh temporary file and registers it for urlcleanup
HttpDownloadRetrieve(t) ==
    \E buildId \in BuildIds, path \in DownloadDirs, name \in TmpNames :
        \E x \in DownloadAnswers(archives[1]) :
            LET self == archives[1]
                c == [Entered("downloadPackage", buildId, path) EXCEPT !.x = x]
                localFilename == <<"urlretrieve", name>>
            IN  /\ self.class = "SimpleHttpArchive"
                /\ calls[t].pc \in { "idle", "done" }
                /\ localFilename \notin tmp
                /\ IF ~BaseArchive_canDownload(self)
                   THEN /\ calls' = [calls EXCEPT ![t] =
                                        [c EXCEPT !.pc = "done", !.res = "False"]]
                        /\ tmp' = tmp
                   ELSE IF x.get.kind # "ok"
                   THEN /\ calls' = [calls EXCEPT ![t] =
                                        [c EXCEPT !.pc = "cleanup", !.res = "False"]]
                        /\ tmp' = tmp
                   ELSE /\ calls' = [calls EXCEPT ![t] =
                                        [c EXCEPT !.pc = "clear", !.tmpName = localFilename]]
                        /\ tmp' = tmp \cup { localFilename }
                /\ UNCHANGED <<recipes, environ, archives, passed, files, dirs, last>>

\* removePath(path); os.makedirs(path)
HttpDownloadClear(t) ==
    /\ archives[1].class = "SimpleHttpArchive"
    /\ calls[t].op = "downloadPackage" /\ calls[t].pc = "clear"
    /\ dirs' = makedirs(removePath(World, calls[t].dir), calls[t].dir).dirs
    /\ calls' = [calls EXCEPT ![t].pc = "extract"]
    /\ UNCHANGED <<recipes, environ, archives, passed, files, tmp, last>>

\* tarfile.open(localFilename, "r:gz") and tar.extractall(path); a file that
\* is gone is an OSError, which becomes a BuildError
HttpDownloadExtract(t) ==
    LET x == calls[t].x
        path == calls[t].dir
        res == IF calls[t].tmpName \notin tmp THEN "BuildError"
               ELSE IF ~x.body.complete THEN "ReadError"
               ELSE IF x.io = "fail" THEN "BuildError"
               ELSE "True"
    IN  /\ archives[1].class = "SimpleHttpArchive"
        /\ calls[t].op = "downloadPackage" /\ calls[t].pc = "extract"
        /\ dirs' = IF res = "True" THEN extractall(World, x.body.entries, path).dirs
                   ELSE dirs
        /\ calls' = [calls EXCEPT ![t].pc = "cleanup", ![t].res = res,
                                  ![t].got = IF res = "True" THEN x.body ELSE NoFile]
        /\ UNCHANGED <<recipes, environ, archives, passed, files, tmp, last>>

\* finally: urllib.request.urlcleanup(), then the return or the raise
HttpDownloadCleanup(t) ==
    /\ archives[1].class = "SimpleHttpArchive"
    /\ calls[t].op = "downloadPackage" /\ calls[t].pc = "cleanup"
    /\ tmp' = urlcleanup(World).tmp
    /\ calls' = [calls EXCEPT ![t].pc = "done"]
    /\ UNCHANGED <<recipes, environ, archives, passed, files, dirs, last>>

(***************************************************************************)
(* Specifications.                                                         *)
(***************************************************************************)
Flagged == { [hasFlags |-> FALSE, flags |-> {}] }
           \cup { [hasFlags |-> TRUE, flags |-> f] : f \in SUBSET AllFlags }

ArchiveSpec(backend, fl, path, url, up, down) ==
    [backend |-> backend, hasFlags |-> fl.hasFlags, flags |-> fl.flags,
     path |-> path, url |-> url, upload |-> up, download |-> down]

FileSpecs == { ArchiveSpec("file", fl, p, "", None, None) : fl \in Flagged, p \in SpecPaths }
HttpSpecs == { ArchiveSpec("http", fl, "", "http://host/arc", None, None) : fl \in Flagged }
ShellSpecs == { ArchiveSpec("shell", fl, "", "", up, down) :
                    fl \in Flagged, up \in Commands, down \in Commands }
NoneSpec == ArchiveSpec("none", [hasFlags |-> FALSE, flags |-> {}], "", "", None, None)

Environ == { <<"PATH", "/bin">>, <<"SECRET", "1">> }
WhiteList == { "PATH" }
Recipes(archiveSpec) == [archiveSpec |-> archiveSpec, envWhiteList |-> WhiteList]

Workspaces == [DirNames -> DirStates]

\* One backend of any kind: capabilities and script emission.
Init ==
    \E spec \in FileSpecs \cup HttpSpecs \cup ShellSpecs \cup { NoneSpec } :
        Constructed(Recipes(<<spec>>), Environ, [d \in DirNames |-> NoDir])

Next == WantUpload \/ WantDownload \/ Upload \/ Download

Spec == Init /\ [][Next]_vars

\* One backend of any kind: what its fragments compute.
NextScript == WantUpload \/ WantDownload \/ Locate

SpecScript == Init /\ [][NextScript]_vars

\* One filesystem backend: direct transfers.
InitLocal ==
    \E spec \in FileSpecs, workspace \in Workspaces :
        /\ spec.path = "/arc"
        /\ Constructed(Recipes(<<spec>>), Environ, workspace)

NextTransfer == WantUpload \/ WantDownload \/ UploadPackage \/ DownloadPackage

SpecLocal == InitLocal /\ [][NextTransfer]_vars

\* One HTTP backend: direct transfers.
InitHttp ==
    \E spec \in HttpSpecs, workspace \in Workspaces :
        Constructed(Recipes(<<spec>>), Environ, workspace)

SpecHttp == InitHttp /\ [][NextTransfer]_vars

\* A list of backends behind one MultiArchive, which alone holds them: the
\* toggles reach the members through it.
MemberSpecs ==
    { NoneSpec,
      ArchiveSpec("file", [hasFlags |-> FALSE, flags |-> {}], "/arc", "", None, None),
      ArchiveSpec("http", [hasFlags |-> FALSE, flags |-> {}], "", "http://host/arc",
                  None, None),
      ArchiveSpec("shell", [hasFlags |-> FALSE, flags |-> {}], "", "",
                  Some("cmd"), None) }

SpecLists == UNION { [1..n -> MemberSpecs] : n \in 0..MaxArchives }

InitMulti ==
    \E archiveSpec \in SpecLists :
        Constructed(Recipes(archiveSpec), Environ,
                    [d \in DirNames |-> IF d = "d1" THEN Dir(Tree1) ELSE Dir(Tree2)])

NextMulti ==
    \/ MultiWantUpload \/ MultiWantDownload
    \/ MultiUploadPackage \/ MultiDownloadPackage

SpecMulti == InitMulti /\ [][NextMulti]_vars

\* The same list: script emission through the MultiArchive.
NextMultiScript ==
    \/ MultiWantUpload \/ MultiWantDownload \/ MultiUpload \/ MultiDownload

SpecMultiScript == InitMulti /\ [][NextMultiScript]_vars

\* One external-command backend, direct transfers, in a process whose
\* environment changes between the calls.
EnvNames == { "PATH", "SECRET", "BOB_LOCAL_ARTIFACT" }

\* os.environ: PATH is set; the other names are set, to the one value the
\* model gives them, or unset
Environs ==
    { e \in SUBSET (Environ \cup { <<"BOB_LOCAL_ARTIFACT", "x">> }) :
        <<"PATH", "/bin">> \in e }

WhiteLists == { {}, WhiteList, WhiteList \cup { "BOB_LOCAL_ARTIFACT" } }

InitShell ==
    \E spec \in ShellSpecs, whiteList \in WhiteLists :
        /\ ~spec.hasFlags
        /\ spec.upload = Some("cmd") /\ spec.download = Some("cmd")
        /\ Constructed([archiveSpec |-> <<spec>>, envWhiteList |-> whiteList],
                       Environ, [d \in DirNames |-> IF d = "d1" THEN Dir(Tree1) ELSE NoDir])

\* os.environ[name] = value, or del os.environ[name], between two calls
Setenv ==
    \E e \in Environs :
        /\ \E n \in EnvNames : \A kv \in (e \ environ) \cup (environ \ e) : kv[1] = n
        /\ e # environ
        /\ environ' = e
        /\ UNCHANGED <<recipes, archives, passed, files, dirs, tmp, last, calls>>

NextShell ==
    \/ WantUpload \/ WantDownload \/ UploadPackage \/ DownloadPackage \/ Setenv

SpecShell == InitShell /\ [][NextShell]_vars

\* One HTTP or one external-command backend: direct transfers, which are the
\* ones that use local temporary files.
InitRemote ==
    \E spec \in HttpSpecs \cup ShellSpecs :
        /\ ~spec.hasFlags
        /\ spec.backend = "shell" => (spec.upload = Some("cmd") /\ spec.download = Some("cmd"))
        /\ Constructed(Recipes(<<spec>>), Environ,
                       [d \in DirNames |-> IF d = "d1" THEN Dir(Tree1) ELSE NoDir])

SpecRemote == InitRemote /\ [][NextTransfer]_vars

\* Every kind of backend, alone or in a list: direct transfers, made on the
\* backend itself or through the MultiArchive.
BackendSpecs ==
    { NoneSpec,
      ArchiveSpec("file", [hasFlags |-> FALSE, flags |-> {}], "/arc", "", None, None),
      ArchiveSpec("http", [hasFlags |-> FALSE, flags |-> {}], "", "http://host/arc",
                  None, None),
      ArchiveSpec("shell", [hasFlags |-> FALSE, flags |-> {}], "", "",
                  Some("cmd"), Some("cmd")) }

InitBackends ==
    \E archiveSpec \in UNION { [1..n -> BackendSpecs] : n \in 1..MaxArchives } :
        Constructed(Recipes(archiveSpec), Environ,
                    [d \in DirNames |-> IF d = "d1" THEN Dir(Tree1) ELSE Dir(Tree2)])

\* getArchiver hands out the backend itself for a spec that is no list; the
\* members of a MultiArchive are reached through it alone
SingleUploadPackage == Len(archives) = 1 /\ UploadPackage

SingleDownloadPackage == Len(archives) = 1 /\ DownloadPackage

NextBackends ==
    \/ MultiWantUpload \/ MultiWantDownload
    \/ SingleUploadPackage \/ SingleDownloadPackage
    \/ MultiUploadPackage \/ MultiDownloadPackage

SpecBackends == InitBackends /\ [][NextBackends]_vars

\* The backend once the build has set its wanted flags, before any transfer.
Started(rcp, up, down, workspace) ==
    /\ recipes = rcp
    /\ environ = Environ
    /\ archives = MultiArchive_wantDownload(
                        MultiArchive_wantUpload(getArchiver(rcp), up), down)
    /\ passed = [i \in 1..Len(rcp.archiveSpec) |-> [upload |-> up, download |-> down]]
    /\ files = [f \in StorePaths |-> NoFile]
    /\ dirs = workspace
    /\ tmp = {}
    /\ last = NoCall
    /\ calls = [t \in Threads |-> Idle]

\* One filesystem backend called by the threads.
InitLocalThreads ==
    \E spec \in FileSpecs, up \in BOOLEAN, down \in BOOLEAN :
        /\ spec.path = "/arc"
        /\ Started(Recipes(<<spec>>), up, down,
                   [d \in DirNames |-> IF d = "d1" THEN Dir(Tree1) ELSE NoDir])

NextLocalThreads ==
    \E t \in Threads :
        \/ LocalUploadCheck(t) \/ LocalUploadOpen(t) \/ LocalUploadAdd(t)
        \/ LocalDownloadCheck(t) \/ LocalDownloadClear(t) \/ LocalDownloadExtract(t)

SpecLocalThreads == InitLocalThreads /\ [][NextLocalThreads]_vars

\* One HTTP backend whose downloadPackage is called by the threads.
InitHttpThreads ==
    \E spec \in HttpSpecs, down \in BOOLEAN :
        Started(Recipes(<<spec>>), FALSE, down,
                [d \in DirNames |-> IF d = "d1" THEN Dir(Tree1) ELSE NoDir])

NextHttpThreads ==
    \E t \in Threads :
        \/ HttpDownloadRetrieve(t) \/ HttpDownloadClear(t)
        \/ HttpDownloadExtract(t) \/ HttpDownloadCleanup(t)

SpecHttpThreads == InitHttpThreads /\ [][NextHttpThreads]_vars

(***************************************************************************)
(* Claims on capabilities and script emission (specification Spec).        *)
(***************************************************************************)
Derived == { "LocalArchive", "SimpleHttpArchive", "CustomArchive" }

\* C1 as stated: for every backend derived from BaseArchive, canUpload() is the
\* value last passed to wantUpload AND 'upload' in the flags, canDownload()
\* the value last passed to wantDownload AND 'download' in the flags.
C1_WantedAndAllowed ==
    \A i \in 1..Len(archives) :
        archives[i].class \in Derived =>
            /\ canUpload(archives[i]) =
                    (passed[i].upload /\ "upload" \in GetFlags(recipes.archiveSpec[i]))
            /\ canDownload(archives[i]) =
                    (passed[i].download /\ "download" \in GetFlags(recipes.archiveSpec[i]))

\* C1 amended: the same for the filesystem and HTTP backends; for the
\* external-command backend the capability is moreover false when the spec
\* configures no command for that direction.
C1_WantedAllowedAndConfigured ==
    \A i \in 1..Len(archives) :
        LET a == archives[i]
            spec == recipes.archiveSpec[i]
            shell == a.class = "CustomArchive"
        IN  a.class \in Derived =>
                /\ canUpload(a) = (/\ passed[i].upload
                                   /\ "upload" \in GetFlags(spec)
                                   /\ (shell => spec.upload # None))
                /\ canDownload(a) = (/\ passed[i].download
                                     /\ "download" \in GetFlags(spec)
                                     /\ (shell => spec.download # None))

\* a toggle made after construction is reflected: upload was switched on and
\* is possible, download was not and is not
C1_Witness ==
    /\ archives[1].class = "CustomArchive"
    /\ passed[1].upload /\ ~passed[1].download
    /\ canUpload(archives[1]) /\ ~canDownload(archives[1])
    /\ "download" \in GetFlags(recipes.archiveSpec[1])

\* C2: for the filesystem, HTTP and external-command backends, upload(...) and
\* download(...) return the empty string when the capability for that
\* direction is false and a non-empty fragment when it is true.
C2_EmptyIffDisabled ==
    (last.op \in { "upload", "download" } /\ archives[last.who].class \in Derived)
        => ((last.frag = EmptyStr) <=> ~last.can)

\* a command is configured and is not the empty string
NonEmpty(cmd) == cmd # None /\ cmd # Some("")

\* C12: for the external-command backend canUpload() is true only if upload
\* is wanted, allowed by the flags and a non-empty upload command is
\* configured, canDownload() likewise; a missing or empty command makes the
\* capability false and the script operation of that direction return the
\* empty string.
C12_NonEmptyCommand ==
    \A i \in 1..Len(archives) :
        LET a == archives[i]
            spec == recipes.archiveSpec[i]
        IN  a.class = "CustomArchive" =>
                /\ canUpload(a) => (/\ passed[i].upload
                                    /\ "upload" \in GetFlags(spec)
                                    /\ NonEmpty(spec.upload))
                /\ canDownload(a) => (/\ passed[i].download
                                      /\ "download" \in GetFlags(spec)
                                      /\ NonEmpty(spec.download))
                /\ ~NonEmpty(spec.upload) =>
                        (~canUpload(a) /\ upload(a, "bid", "result.tgz") = EmptyStr)
                /\ ~NonEmpty(spec.download) =>
                        (~canDownload(a) /\ download(a, "bid", "result.tgz") = EmptyStr)

\* the command of a fragment that moves the artifact, as the templates write
\* it, and the suffix that keeps its failure from ending the script
TransferCommand(self, op, tgzFile) ==
    CASE self.class = "LocalArchive" /\ op = "upload" ->
            "cp " \o quote(tgzFile) \o " \"$BOB_UPLOAD_FILE\""
      [] self.class = "LocalArchive" /\ op = "download" ->
            "cp \"$BOB_DOWNLOAD_FILE\" " \o quote(tgzFile)
      [] self.class = "SimpleHttpArchive" /\ op = "upload" ->
            "curl -sSg -T " \o quote(tgzFile) \o " \"$BOB_UPLOAD_URL\""
      [] self.class = "SimpleHttpArchive" /\ op = "download" ->
            "curl -sSg --fail -o " \o quote(tgzFile) \o " \"$BOB_DOWNLOAD_URL\""
      [] self.class = "CustomArchive" /\ op = "upload" -> self.uploadCmd[1]
      [] self.class = "CustomArchive" /\ op = "download" -> self.downloadCmd[1]

Fallback(op) ==
    IF op = "upload" THEN " || echo Upload failed: $?"
    ELSE " || echo Download failed: $?"

\* C14: in every non-empty fragment returned by upload(...) or download(...)
\* of the filesystem, HTTP and external-command backends, the command that
\* transfers the artifact is followed by the non-aborting fallback
\* (|| echo ... failed: $?) and does not stand without it.
C14_FallbackEverywhere ==
    (/\ last.op \in { "upload", "download" }
     /\ archives[last.who].class \in Derived
     /\ last.frag # EmptyStr)
        => \E tgzFile \in FileNames :
              LET cmd == TransferCommand(archives[last.who], last.op, tgzFile)
              IN  /\ \E k \in 1..Len(last.frag) :
                        last.frag[k].txt = cmd \o Fallback(last.op)
                  /\ \A k \in 1..Len(last.frag) : last.frag[k].txt # cmd

\* C16 as stated (specification SpecScript): for every build identifier the
\* location the emitted fragment computes from the identifier file is the
\* location direct mode uses: base/hex[0:2]/hex[2:4]/hex[4:].tgz for the
\* filesystem and HTTP backends, the same without base for the
\* external-command backend.
C16_SameLocation ==
    last.op = "locate" =>
        /\ last.ev[2].arg = last.ev[1].arg
        /\ \E base \in { <<>>, << archives[last.who].basePath >>,
                          << archives[last.who].url >> } :
                last.ev[1].arg = base \o ShardKey(last.bid)

(***************************************************************************)
(* Claims on the filesystem backend (specification SpecLocal).             *)
(***************************************************************************)
\* C3: once the archive file of a build identifier exists in the store, no
\* call changes or removes it; an uploadPackage of an identifier that is
\* already stored returns normally and leaves the stored file as it was,
\* whatever directory it is given; and a download that succeeded delivered
\* the content of that stored file.
C3_StoredFileIsFinal ==
    /\ [][\A f \in StorePaths : files[f].exists => files'[f] = files[f]]_vars
    /\ []((last.op = "uploadPackage" /\ last.pre.exists)
            => (last.res = "None" /\ Stored(archives[last.who], last.bid) = last.pre))
    /\ []((last.op = "downloadPackage" /\ last.res = "True")
            => dirs[last.dir] = Dir(Stored(archives[last.who], last.bid).entries))

\* a second upload of a stored identifier, from a directory whose content
\* differs from what is stored, has returned
C3_Witness ==
    /\ last.op = "uploadPackage" /\ last.can
    /\ last.pre.exists /\ last.pre.complete
    /\ last.src.exists /\ last.src.files # last.pre.entries
    /\ last.res = "None"

\* C4: with both capabilities enabled, uploadPackage(b, d) of an identifier
\* not yet stored, from an existing directory d, returns normally, and the
\* downloadPackage(b, d2) that follows returns true and leaves d2 holding
\* exactly the tree d held at upload time, whatever d2 held before.
C4_RoundTrip ==
    [][(/\ last.op = "uploadPackage" /\ last.can
        /\ ~last.pre.exists /\ last.src.exists
        /\ last'.op = "downloadPackage" /\ last'.can
        /\ last'.bid = last.bid)
       => (/\ last.res = "None"
           /\ last'.res = "True"
           /\ dirs'[last'.dir] = Dir(last.src.files))]_vars

\* a download has replaced a directory that held another tree by the tree
\* that was uploaded
C4_Witness ==
    /\ last.op = "downloadPackage" /\ last.can /\ last.res = "True"
    /\ last.src.exists /\ last.src.files # {}
    /\ dirs[last.dir].exists
    /\ dirs[last.dir].files # last.src.files
    /\ dirs[last.dir].files = Stored(archives[last.who], last.bid).entries

(***************************************************************************)
(* Claims on the HTTP backend (specification SpecHttp).                    *)
(***************************************************************************)
\* the last call was this method on the backend, made with the capability on
HttpCall(method) == last.op = method /\ last.can

\* C8: downloadPackage with the download capability on, whose GET of the
\* sharded URL is answered by HTTP 404, returns false and raises nothing.
C8_NotFoundReturnsFalse ==
    (/\ HttpCall("downloadPackage")
     /\ last.ev[1].answer = HttpError(HTTP_NOT_FOUND))
        => (/\ last.ev[1].ev = "GET"
            /\ last.ev[1].arg = SimpleHttpArchive_makeUrl(archives[last.who], last.bid)
            /\ last.res = "False")

\* a download whose GET met a 404 has returned
C8_Witness ==
    /\ HttpCall("downloadPackage")
    /\ last.ev[1].ev = "GET"
    /\ last.ev[1].answer = HttpError(HTTP_NOT_FOUND)
    /\ last.res = "False"

C10_HeadBeforePut ==
    HttpCall("uploadPackage") =>
        LET url == SimpleHttpArchive_makeUrl(archives[last.who], last.bid)
            head == last.ev[1]
        IN  /\ Len(last.ev) \in { 1, 2 }
            /\ head.ev = "HEAD" /\ head.arg = url
            /\ \A k \in 1..Len(last.ev) :
                    last.ev[k].ev = "PUT" =>
                        /\ k = 2
                        /\ last.ev[k].arg = url
                        /\ head.answer = HttpError(HTTP_NOT_FOUND)
                        /\ last.ev[k].data = Tgz(last.src.files)
                        /\ (last.ev[k].answer # HttpOk => last.res = "BuildError")
                        /\ (last.ev[k].answer = HttpOk => last.res = "None")
            /\ head.answer = HttpOk => (last.res = "None" /\ Len(last.ev) = 1)
            /\ head.answer \notin { HttpOk, HttpError(HTTP_NOT_FOUND) }
                    => (last.res = "BuildError" /\ Len(last.ev) = 1)
            /\ (head.answer = HttpError(HTTP_NOT_FOUND) /\ last.src.exists)
                    => Len(last.ev) = 2

\* an upload has sent the archive by PUT after its HEAD met a 404
C10_Witness ==
    /\ HttpCall("uploadPackage")
    /\ Len(last.ev) = 2
    /\ last.ev[1].ev = "HEAD" /\ last.ev[1].answer = HttpError(HTTP_NOT_FOUND)
    /\ last.ev[2].ev = "PUT" /\ last.ev[2].answer = HttpOk
    /\ last.res = "None"

(***************************************************************************)
(* Claims on the MultiArchive (specification SpecMulti).                   *)
(***************************************************************************)
\* the members a call on the MultiArchive invoked, in the order of the calls
Invoked == [k \in 1..Len(last.ev) |-> last.ev[k].who]

Ascending(s) == \A k, l \in 1..Len(s) : k < l => s[k] < s[l]

Range(s) == { s[k] : k \in 1..Len(s) }

\* the last member call did not come back with False: it succeeded or raised
Stopped == last.ev # <<>> /\ Last(last.ev).arg # <<"False">>

\* C5: MultiArchive.downloadPackage calls downloadPackage on the members in
\* list order, skips the members whose canDownload() is false, returns true
\* at the first member that succeeds without calling any later member, and
\* returns false when no member succeeds (the empty list included).
C5_FirstSuccessWins ==
    last.op = "Multi.downloadPackage" =>
        LET stop == IF Stopped THEN Last(last.ev).who ELSE Len(last.cans)
        IN  /\ \A k \in 1..Len(last.ev) : last.ev[k].ev = "downloadPackage"
            /\ Ascending(Invoked)
            /\ Range(Invoked) = { i \in 1..stop : last.cans[i] }
            /\ \A k \in 1..(Len(last.ev) - 1) : last.ev[k].arg = <<"False">>
            /\ last.res = (IF Stopped THEN Last(last.ev).arg[1] ELSE "False")
            /\ last.can = (\E i \in 1..Len(last.cans) : last.cans[i])

\* member 1 lacked the capability, member 2 was asked and succeeded
C5_Witness ==
    /\ last.op = "Multi.downloadPackage"
    /\ last.cans = <<FALSE, TRUE>>
    /\ Invoked = <<2>>
    /\ last.ev[1].arg = <<"True">>
    /\ last.res = "True"

\* C6: when MultiArchive.uploadPackage returns normally, uploadPackage was
\* called exactly once, in list order, on every member whose canUpload() was
\* true and on no other member; when a member's upload raises, the call on
\* the MultiArchive raises that error.
C6_FanOut ==
    last.op = "Multi.uploadPackage" =>
        /\ \A k \in 1..Len(last.ev) :
                /\ last.ev[k].ev = "uploadPackage"
                /\ last.cans[last.ev[k].who]
                /\ last.ev[k].arg[1] \in Raised
                        => (k = Len(last.ev) /\ last.res = last.ev[k].arg[1])
        /\ Ascending(Invoked)
        /\ last.res = "None" => Range(Invoked) = { i \in 1..Len(last.cans) : last.cans[i] }
        /\ last.res # "None" => (last.ev # <<>> /\ Last(last.ev).arg = <<last.res>>)

\* both members were called although the first one, a filesystem backend,
\* skipped the upload because it holds the artifact already
C6_Witness ==
    /\ last.op = "Multi.uploadPackage"
    /\ last.res = "None"
    /\ Invoked = <<1, 2>>
    /\ archives[1].class = "LocalArchive"
    /\ Stored(archives[1], last.bid).exists
    /\ Stored(archives[1], last.bid).entries # last.src.files

\* what the configuration and the toggles passed so far allow member i
Allowed(i, flag, wanted) ==
    /\ wanted
    /\ recipes.archiveSpec[i].backend # "none"
    /\ flag \in GetFlags(recipes.archiveSpec[i])
    /\ recipes.archiveSpec[i].backend = "shell" => recipes.archiveSpec[i][flag] # None

\* C7: MultiArchive.canUpload() is the OR of the members' canUpload() and
\* MultiArchive.canDownload() the OR of the members' canDownload(), false for
\* the empty list, whatever toggles were passed to the members or, through
\* the MultiArchive, to all of them.
C7_AnyMember ==
    /\ MultiArchive_canUpload(archives)
            = (\E i \in 1..Len(archives) : Allowed(i, "upload", passed[i].upload))
    /\ MultiArchive_canDownload(archives)
            = (\E i \in 1..Len(archives) : Allowed(i, "download", passed[i].download))
    /\ \A i \in 1..Len(archives) :
            /\ canUpload(archives[i]) = Allowed(i, "upload", passed[i].upload)
            /\ canDownload(archives[i]) = Allowed(i, "download", passed[i].download)

\* the toggle reached both members; the first may not upload, the second
\* may, and so may the MultiArchive
C7_Witness ==
    /\ Len(archives) = 2
    /\ passed[1].upload /\ passed[2].upload
    /\ ~canUpload(archives[1]) /\ canUpload(archives[2])
    /\ MultiArchive_canUpload(archives)
    /\ ~MultiArchive_canDownload(archives)

\* the fragment member i returns for the arguments of the last call
MemberFragment(i) ==
    IF last.op = "Multi.upload"
    THEN upload(archives[i], last.args[1], last.args[2])
    ELSE download(archives[i], last.args[1], last.args[2])

\* C15 (specification SpecMultiScript): MultiArchive.upload and
\* MultiArchive.download return the newline-join, in list order, of the
\* fragments of exactly the members capable of that direction, every one of
\* these fragments being non-empty, so that no empty fragment is joined.
C15_JoinOfCapable ==
    last.op \in { "Multi.upload", "Multi.download" } =>
        LET n == Len(archives)
            frags == [i \in 1..n |-> MemberFragment(i)]
        IN  /\ \A i \in 1..n : last.cans[i] => frags[i] # EmptyStr
            /\ last.frag = JoinLines(SelectFrags(frags,
                                [i \in 1..n |-> last.cans[i] /\ frags[i] # EmptyStr]))

(***************************************************************************)
(* Claims on the external-command backend (specification SpecShell).       *)
(***************************************************************************)
\* the last call was this method, made with the capability on, and it ran
\* the configured command
Spawned(method) ==
    /\ last.op = method /\ last.can
    /\ last.ev # <<>> /\ last.ev[1].ev = "spawn"

\* C11 as stated: when the command exits non-zero, uploadPackage raises a
\* BuildError and downloadPackage returns false; when the download command
\* exits zero, downloadPackage has cleared and recreated the destination,
\* extracted into it and returns true.
C11_ExitStatusDecides ==
    /\ (Spawned("uploadPackage") /\ last.ev[1].answer # Exit(0))
            => last.res = "BuildError"
    /\ (Spawned("downloadPackage") /\ last.ev[1].answer # Exit(0))
            => last.res = "False"
    /\ (Spawned("downloadPackage") /\ last.ev[1].answer = Exit(0))
            => (last.res = "True" /\ dirs[last.dir] = Dir(last.ev[1].data.entries))

\* C11 amended: the non-zero cases as stated; when the download command exits
\* zero the destination is cleared and recreated in every case, and the call
\* returns true, the destination holding exactly the archive's entries, when
\* the temporary file is a readable archive that unpacks without local
\* error; otherwise it raises.
C11_ExitStatusThenArchive ==
    /\ (Spawned("uploadPackage") /\ last.ev[1].answer # Exit(0))
            => last.res = "BuildError"
    /\ (Spawned("downloadPackage") /\ last.ev[1].answer # Exit(0))
            => (last.res = "False" /\ dirs[last.dir] = last.src)
    /\ (Spawned("downloadPackage") /\ last.ev[1].answer = Exit(0))
            => LET got == last.ev[1].data
               IN  /\ dirs[last.dir].exists
                   /\ dirs[last.dir].files \subseteq got.entries
                   /\ last.res \in { "True", "ReadError", "BuildError" }
                   /\ last.res = "True" =>
                        (got.complete /\ dirs[last.dir] = Dir(got.entries))
                   /\ ~got.complete => last.res = "ReadError"

\* a download whose command exited zero has replaced the tree the
\* destination held by the tree of the archive
C11_Witness ==
    /\ Spawned("downloadPackage")
    /\ last.ev[1].answer = Exit(0)
    /\ last.res = "True"
    /\ last.src = Dir(Tree1)
    /\ dirs[last.dir] = Dir(Tree2)

Synthesized == { "BOB_LOCAL_ARTIFACT", "BOB_REMOTE_ARTIFACT" }

\* the value the environment e gives the name n (a set: empty when unset)
Getenv(e, n) == { kv[2] : kv \in { p \in e : p[1] = n } }

\* C13: the environment handed to the command of uploadPackage and
\* downloadPackage consists of exactly the variables of os.environ whose
\* names are in the whitelist and of BOB_LOCAL_ARTIFACT (the name mkstemp
\* returned) and BOB_REMOTE_ARTIFACT (the sharded key without base), the two
\* taking the place of inherited variables of these names; and two
\* successive calls of the same method for the same identifier and the
\* same temporary name, made in environments that differ only in variables
\* outside the whitelist, hand over the same environment.
C13_OnlyWhitelisted ==
    /\ [](\A method \in { "uploadPackage", "downloadPackage" } :
            Spawned(method) =>
                LET env == last.ev[1].env
                    inherited == { kv \in last.amb :
                                     /\ kv[1] \in recipes.envWhiteList
                                     /\ kv[1] \notin Synthesized }
                IN  /\ { kv \in env : kv[1] \notin Synthesized } = inherited
                    /\ { kv[1] : kv \in env } = { kv[1] : kv \in inherited }
                                                    \cup Synthesized
                    /\ Getenv(env, "BOB_REMOTE_ARTIFACT") = { ShardKey(last.bid) }
                    /\ \E t \in TmpNames : Getenv(env, "BOB_LOCAL_ARTIFACT") = { t })
    /\ [][(/\ last.op = last'.op /\ last.bid = last'.bid
            /\ last.ev # <<>> /\ last.ev[1].ev = "spawn"
            /\ last'.ev # <<>> /\ last'.ev[1].ev = "spawn"
            /\ Getenv(last.ev[1].env, "BOB_LOCAL_ARTIFACT")
                    = Getenv(last'.ev[1].env, "BOB_LOCAL_ARTIFACT")
            /\ \A n \in recipes.envWhiteList :
                    Getenv(last.amb, n) = Getenv(last'.amb, n))
           => last'.ev[1].env = last.ev[1].env]_vars

\* the command was run in a process whose environment had been changed and
\* held two variables outside the whitelist: it received PATH and the two
\* synthesized variables only
C13_Witness ==
    /\ Spawned("uploadPackage")
    /\ recipes.envWhiteList = { "PATH" }
    /\ { "SECRET", "BOB_LOCAL_ARTIFACT" } \subseteq { kv[1] : kv \in last.amb }
    /\ { kv[1] : kv \in last.ev[1].env } = { "PATH" } \cup Synthesized
    /\ Getenv(last.ev[1].env, "BOB_LOCAL_ARTIFACT") \subseteq TmpNames

(***************************************************************************)
(* Claims on local temporary files (specification SpecRemote).             *)
(***************************************************************************)
\* C17: every local temporary file a transfer call of the HTTP or of the
\* external-command backend creates (mkstemp, urlretrieve, TemporaryFile) is
\* gone when the call has finished, whether it returned normally, returned
\* false, or raised (command failure, archive creation or extraction error).
C17_NoTempFileLeft ==
    last.op \in { "uploadPackage", "downloadPackage" } => tmp = {}

\* an external-command download whose command exited 0 and left no readable
\* archive in its temporary file has raised, and the file is gone
C17_Witness ==
    /\ last.op = "downloadPackage"
    /\ archives[last.who].class = "CustomArchive"
    /\ last.res = "ReadError"
    /\ Len(last.ev) = 1 /\ last.ev[1].ev = "spawn"
    /\ tmp = {}

(***************************************************************************)
(* Claims on concurrent calls (specifications SpecLocalThreads and         *)
(* SpecHttpThreads).                                                       *)
(***************************************************************************)
\* C18 (filesystem backend, concurrent calls on one instance, wanted flags set
\* beforehand): a downloadPackage that has finished returned false, or
\* returned true having read the complete archive; no existence check, of a
\* download or of an upload, found a file that exists and holds a partially
\* written archive; and when both threads have finished an uploadPackage of
\* the same identifier the stored file is the complete archive.
C18_ConcurrentTransfers ==
    /\ \A t \in Threads :
            (calls[t].op = "downloadPackage" /\ calls[t].pc = "done")
                => \/ calls[t].res = "False"
                   \/ calls[t].res = "True" /\ calls[t].got.complete
    /\ \A t \in Threads : calls[t].seen.exists => calls[t].seen.complete
    /\ (/\ \A t \in Threads : /\ calls[t].op = "uploadPackage"
                              /\ calls[t].pc = "done"
                              /\ calls[t].res = "None"
        /\ calls[1].bid = calls[2].bid
        /\ BaseArchive_canUpload(archives[1]))
            => Stored(archives[1], calls[1].bid) = Tgz(dirs[calls[1].dir].files)

\* C19 (HTTP backend, concurrent downloadPackage calls on one instance): a call
\* that has finished gave what the same call gives when it runs alone with
\* the same answers of the server; and the temporary file of a call that has
\* fetched and not yet extracted exists.
C19_AsIfAlone ==
    /\ \A t \in Threads :
            (calls[t].op = "downloadPackage" /\ calls[t].pc = "done")
                => calls[t].res =
                        SimpleHttpArchive_downloadPackage(
                            archives[1], World, calls[t].bid, calls[t].dir,
                            calls[t].x).res
    /\ \A t \in Threads :
            (calls[t].op = "downloadPackage" /\ calls[t].pc \in { "clear", "extract" })
                => calls[t].tmpName \in tmp

(***************************************************************************)
(* Claims on what a call leaves alone (specification SpecBackends).        *)
(***************************************************************************)
TransferOps ==
    { "uploadPackage", "downloadPackage", "Multi.uploadPackage", "Multi.downloadPackage" }

\* C20: a downloadPackage, of any backend or of the MultiArchive, that returns
\* false leaves the destination directory as it was before the call; and a
\* transfer call made with the capability disabled changes neither the
\* stored files nor the directories.
C20_FalseTouchesNothing ==
    [][ /\ (/\ last'.op \in { "downloadPackage", "Multi.downloadPackage" }
            /\ last'.res = "False")
                => dirs' = dirs
        /\ (last'.op \in TransferOps /\ ~last'.can)
                => (files' = files /\ dirs' = dirs) ]_vars

\* a download through the MultiArchive asked a member, which did not deliver,
\* and returned false; the destination holds what it held
C20_Witness ==
    /\ last.op = "Multi.downloadPackage"
    /\ last.can /\ last.res = "False"
    /\ Len(last.ev) > 0
    /\ last.src = Dir(Tree2)
    /\ dirs[last.dir] = last.src
====
